---- MODULE Spec2Model ----
(***************************************************************************)
(* A model of OppoCloudApiClient (custom_components/oppo_cloud_tracker/    *)
(* api.py): the client's session handle, its keep-session flag and the     *)
(* control flow of its public coroutines, with the remote browser as the   *)
(* environment.  Every coroutine is cut at its awaits and at the driver    *)
(* calls of its executor job, so that two coroutines of one client can     *)
(* interleave there as they can on the event loop and its thread pool.     *)
(***************************************************************************)
EXTENDS Integers, Sequences, FiniteSets, TLC

\* Bounds of the model.
MaxSessions == 2   \* sessions the remote browser grants in one behaviour
MaxDepth == 2      \* nested async_get_data frames explored beyond the first
MaxDepthConcurrent == 0  \* the same, for concurrent callers and for two clients
MaxDevices == 2    \* entries of window.$findVm.deviceList
MaxCalls == 2      \* calls started by callers that do not await each other
MaxCaptured == 2   \* strings in window.__capturedErrors
MaxEntries == 2    \* entries of the deviceList and of the points handed to the parser
MaxCapturedConcurrent == 0  \* the same, for concurrent callers and for two clients

Tasks == {1, 2}    \* callers of the one client instance
Sessions == 1..MaxSessions

\* Schemes of the configured URL: "http" stands for http and https, which
\* webdriver.Remote speaks; "other" for any scheme it cannot open a session on.
Schemes == {"http", "other"}
None == 0          \* self._driver is None

\* Exception kinds.  "none" is a normal return.
\*   AuthError   OppoCloudApiClientAuthenticationError
\*   CommError   OppoCloudApiClientCommunicationError
\*   ClientError OppoCloudApiClientError (the base kind itself)
\*   Timeout     selenium TimeoutException (a WebDriverException)
\*   WDE         any other selenium WebDriverException
\*   TypeError, AttributeError   the Python built-ins
ClientKinds == {"AuthError", "CommError", "ClientError"}
DriverKinds == {"Timeout", "WDE"}
Kinds == ClientKinds \cup DriverKinds \cup {"TypeError", "AttributeError"}

VARIABLES
    driver,        \* self._driver: None or the session handle held
    keep_session,  \* self._keep_session
    open,          \* sessions open on the remote browser (created, not quit, not crashed)
    nsess,         \* sessions created so far; handles are never reused
    frame,         \* sessions whose frame context is the login iframe
    scheme,        \* scheme of self._remote_browser_url
    serialized,    \* TRUE when the callers await each call before the next
    ncalls,        \* calls started by callers that do not
    pc,            \* per task: where its coroutine stands
    stk,           \* per task: return labels of the calls in progress
    op,            \* per task: the public entry point it is in
    drv,           \* per task: the local `driver` of the running sync function
    exc,           \* per task: exception in flight ("none": normal return)
    log,           \* per task: what the current call did so far (history)
    vm,            \* per task: what the scrape in progress saw of the page: a
                   \* redirect, or the $findVm state at its wait (history)
    drv0,          \* per task: self._driver when the current call began (history)
    diag,          \* per task: the captured error texts and the message made of
                   \* them, from the URL wait's timeout to the login's return
    last,          \* what the client was last asked to do (history)
    raw,           \* deviceList and points handed to _parse_device_data
    parsed,        \* what _parse_device_data made of them
    other          \* a second OppoCloudApiClient: its _driver and _keep_session

vars == <<driver, keep_session, open, nsess, frame, scheme, serialized, ncalls,
          pc, stk, op, drv, exc, log, vm, drv0, diag, last, raw, parsed, other>>

client == <<driver, keep_session, open, nsess, frame>>
env == <<scheme, serialized, ncalls, last, raw, parsed, other>>

----
\* Control-flow helpers.

Goto(t, l) == pc' = [pc EXCEPT ![t] = l]

\* call a sub-coroutine / function: run `entry`, continue at `ret`
CallSub(t, entry, ret) ==
    /\ pc' = [pc EXCEPT ![t] = entry]
    /\ stk' = [stk EXCEPT ![t] = <<ret>> \o @]

\* return (normally or by raising) to the caller's continuation
ReturnSub(t) ==
    /\ pc' = [pc EXCEPT ![t] = Head(stk[t])]
    /\ stk' = [stk EXCEPT ![t] = Tail(@)]

Raise(t, e) == exc' = [exc EXCEPT ![t] = e]

Note(t, ev) == log' = [log EXCEPT ![t] = Append(@, ev)]

\* nested async_get_data frames of task t that await their recursive call
Depth(t) == Cardinality({i \in DOMAIN stk[t] : stk[t][i] = "gd_finally"})

Idle(t) == pc[t] = "idle"

\* one client, with callers that await each call: the case explored with the
\* wider bounds
Alone == serialized /\ ~other.exists

\* A caller may start a call when it has none in flight.  Callers that await
\* each call before the next are one task: task 1.  Tasks are interchangeable,
\* so a call that finds both idle runs as task 1.
MayCall ==
    /\ IF serialized THEN \A u \in Tasks : Idle(u) ELSE ncalls < MaxCalls
    /\ ncalls' = IF serialized THEN ncalls ELSE ncalls + 1

MayStart(t) ==
    /\ Idle(t)
    /\ serialized => t = 1
    /\ t = 2 => ~Idle(1)
    /\ MayCall

Start(t, name, entry) ==
    /\ MayStart(t)
    /\ pc' = [pc EXCEPT ![t] = entry]
    /\ stk' = [stk EXCEPT ![t] = <<"done">>]
    /\ op' = [op EXCEPT ![t] = name]
    /\ exc' = [exc EXCEPT ![t] = "none"]
    /\ log' = [log EXCEPT ![t] = <<>>]
    /\ vm' = [vm EXCEPT ![t] = "unseen"]
    /\ drv0' = [drv0 EXCEPT ![t] = driver]
    /\ drv' = [drv EXCEPT ![t] = None]
    /\ last' = IF last = "keep_off" THEN "other" ELSE last
    /\ UNCHANGED diag

----
\* async_cleanup (api.py 116-131)

\* History of a quit(): the task that runs it records its outcome, and every
\* fetch or login in flight whose local handle is the session being quit
\* records that the session was torn down under it, and by which entry point.
NoteQuit(t, raised) ==
    log' = [x \in Tasks |->
              IF x = t THEN Append(log[x], <<"quit", raised>>)
              ELSE IF /\ pc[x] \notin {"idle", "done"}
                      /\ op[x] \in {"get_data", "login"}
                      /\ drv[x] = driver
                 THEN Append(log[x], <<"cut", op[t]>>)
                 ELSE log[x]]

\* `if not self._driver: return`, else dispatch _cleanup_driver
async_cleanup_entry(t) ==
    /\ pc[t] = "cl_entry"
    /\ IF driver = None
          THEN ReturnSub(t)
          ELSE Goto(t, "cl_quit") /\ UNCHANGED stk
    /\ UNCHANGED <<client, env, op, drv, exc, log, vm, drv0, diag>>

\* _cleanup_driver with the handle cleared after a clean quit() only
cleanup_driver_no_finally(t) ==
    /\ pc[t] = "cl_quit"
    /\ IF driver = None
          THEN UNCHANGED <<driver, open, frame, log>>
          ELSE /\ \E raised \in {"none", "WDE"} :
                    /\ (driver \notin open) => raised = "WDE"
                    /\ NoteQuit(t, raised)
                    /\ driver' = IF raised = "none" THEN None ELSE driver
               /\ open' = open \ {driver}
               /\ frame' = frame \ {driver}
    /\ ReturnSub(t)
    /\ UNCHANGED <<keep_session, nsess, env, op, drv, exc, vm, drv0, diag>>

\* _cleanup_driver: quit() closes the session when it is still open; it raises
\* WebDriverException when the session is gone (or the answer is lost), which
\* is swallowed; `finally` clears the handle.
cleanup_driver(t) ==
    /\ pc[t] = "cl_quit"
    /\ IF driver = None
          THEN UNCHANGED <<driver, open, frame, log>>
          ELSE /\ \E raised \in {"none", "WDE"} :
                    /\ (driver \notin open) => raised = "WDE"
                    /\ NoteQuit(t, raised)
               /\ open' = open \ {driver}
               /\ frame' = frame \ {driver}
               /\ driver' = None
    /\ ReturnSub(t)
    /\ UNCHANGED <<keep_session, nsess, env, op, drv, exc, vm, drv0, diag>>

----
\* _get_or_create_driver (api.py 81-114)

\* _get_or_create_driver that never reuses the cached handle
get_or_create_driver_check_no_reuse(t) ==
    /\ pc[t] = "ac_check"
    /\ Goto(t, "ac_create")
    /\ driver' = None
    /\ UNCHANGED <<keep_session, open, nsess, frame, env, stk, op, drv, exc, log, vm, drv0, diag>>

\* _get_or_create_driver that returns a cached handle without probing it
get_or_create_driver_check_no_probe(t) ==
    /\ pc[t] = "ac_check"
    /\ IF driver # None
          THEN Goto(t, "ac_ret") /\ UNCHANGED driver
          ELSE Goto(t, "ac_create") /\ driver' = None
    /\ UNCHANGED <<keep_session, open, nsess, frame, env, stk, op, drv, exc, log, vm, drv0, diag>>

\* lines 83-89: a cached handle is probed with current_url; a live one is
\* returned, a dead one (WebDriverException) is dropped.
get_or_create_driver_check(t) ==
    /\ pc[t] = "ac_check"
    /\ IF driver # None /\ driver \in open
          THEN Goto(t, "ac_ret") /\ UNCHANGED driver
          ELSE Goto(t, "ac_create") /\ driver' = None
    /\ UNCHANGED <<keep_session, open, nsess, frame, env, stk, op, drv, exc, log, vm, drv0, diag>>

\* _get_or_create_driver that lets the connection exception out as it is
get_or_create_driver_create_unwrapped(t) ==
    /\ pc[t] = "ac_create"
    /\ \/ /\ scheme = "http"
          /\ nsess < MaxSessions
          /\ nsess' = nsess + 1
          /\ open' = open \cup {nsess + 1}
          /\ driver' = nsess + 1
          /\ Note(t, <<"create", "ok">>)
          /\ Goto(t, "ac_ret")
          /\ UNCHANGED <<stk, exc>>
       \/ /\ driver' = None
          /\ UNCHANGED log
          /\ Raise(t, "WDE")
          /\ ReturnSub(t)
          /\ UNCHANGED <<nsess, open>>
    /\ UNCHANGED <<keep_session, frame, env, op, drv, vm, drv0, diag>>

\* lines 91-112: the URL is stripped and handed to webdriver.Remote(...)
\* whatever its scheme.  The call either opens a new session, which is stored
\* in self._driver, or fails: the handle is cleared and the failure is raised
\* as a CommunicationError.
get_or_create_driver_create(t) ==
    /\ pc[t] = "ac_create"
    /\ \/ /\ scheme = "http"
          /\ nsess < MaxSessions
          /\ nsess' = nsess + 1
          /\ open' = open \cup {nsess + 1}
          /\ driver' = nsess + 1
          /\ Note(t, <<"create", "ok">>)
          /\ Goto(t, "ac_ret")
          /\ UNCHANGED <<stk, exc>>
       \/ /\ driver' = None
          /\ UNCHANGED log
          /\ Raise(t, "CommError")
          /\ ReturnSub(t)
          /\ UNCHANGED <<nsess, open>>
    /\ UNCHANGED <<keep_session, frame, env, op, drv, vm, drv0, diag>>

\* lines 87 and 114: `return self._driver` reads the attribute again
get_or_create_driver_return(t) ==
    /\ pc[t] = "ac_ret"
    /\ drv' = [drv EXCEPT ![t] = driver]
    /\ ReturnSub(t)
    /\ UNCHANGED <<client, env, op, exc, log, vm, drv0, diag>>

\* What a driver call on the local handle d raises before the page answers:
\* AttributeError on None, WebDriverException on a session that is gone.
DriverCall(d) ==
    IF d = None THEN "AttributeError"
    ELSE IF d \notin open THEN "WDE"
    ELSE "none"

----
\* _get_devices_data (api.py 313-356)

\* line 315
get_devices_data_entry(t) ==
    /\ pc[t] = "sc_entry"
    /\ CallSub(t, "ac_check", "sc_nav")
    /\ UNCHANGED <<client, env, op, drv, exc, log, vm, drv0, diag>>

\* _get_devices_data without the check of lines 319-321
get_devices_data_navigate_unchecked(t) ==
    /\ pc[t] = "sc_nav"
    /\ IF exc[t] # "none"
          THEN ReturnSub(t) /\ UNCHANGED <<exc, vm>>
          ELSE IF DriverCall(drv[t]) # "none"
          THEN Raise(t, DriverCall(drv[t])) /\ ReturnSub(t) /\ UNCHANGED vm
          ELSE \E page \in {"find", "redirected", "loadtimeout"} :
                 CASE page = "find" ->
                        Goto(t, "sc_wait") /\ UNCHANGED <<stk, exc, vm>>
                   [] page = "redirected" ->
                        /\ vm' = [vm EXCEPT ![t] = "redirected"]
                        /\ Goto(t, "sc_wait") /\ UNCHANGED <<stk, exc>>
                   [] page = "loadtimeout" ->
                        Raise(t, "Timeout") /\ ReturnSub(t) /\ UNCHANGED vm
    /\ UNCHANGED <<client, env, op, drv, log, drv0, diag>>

\* lines 316-321: navigate to the find page; a redirect away from it is an
\* AuthenticationError.  A page-load timeout leaves as TimeoutException.
get_devices_data_navigate(t) ==
    /\ pc[t] = "sc_nav"
    /\ IF exc[t] # "none"
          THEN ReturnSub(t) /\ UNCHANGED <<exc, vm>>
          ELSE IF DriverCall(drv[t]) # "none"
          THEN Raise(t, DriverCall(drv[t])) /\ ReturnSub(t) /\ UNCHANGED vm
          ELSE \E page \in {"find", "redirected", "loadtimeout"} :
                 CASE page = "find" ->
                        Goto(t, "sc_wait") /\ UNCHANGED <<stk, exc, vm>>
                   [] page = "redirected" ->
                        /\ vm' = [vm EXCEPT ![t] = "redirected"]
                        /\ Raise(t, "AuthError") /\ ReturnSub(t)
                   [] page = "loadtimeout" ->
                        Raise(t, "Timeout") /\ ReturnSub(t) /\ UNCHANGED vm
    /\ UNCHANGED <<client, env, op, drv, log, drv0, diag>>

\* lines 325-334: wait until $findVm.deviceList is non-empty; the timeout is
\* an AuthenticationError whatever the page state is.
get_devices_data_wait(t) ==
    /\ pc[t] = "sc_wait"
    /\ IF DriverCall(drv[t]) # "none"
          THEN Raise(t, DriverCall(drv[t])) /\ ReturnSub(t) /\ UNCHANGED vm
          ELSE \E v \in {"absent", "emptylist", "devices"} :
                 /\ vm' = [vm EXCEPT ![t] = v]
                 /\ IF v = "devices"
                       THEN Goto(t, "sc_read") /\ UNCHANGED <<stk, exc>>
                       ELSE Raise(t, "AuthError") /\ ReturnSub(t)
    /\ UNCHANGED <<client, env, op, drv, log, drv0, diag>>

\* _parse_device_data (api.py 372-441) as far as its outcome goes: every entry
\* ends in OppoCloudDevice(...) without the battery_level that data.py 28-38
\* requires, so a list with an entry raises TypeError.
parse_device_data(n) == IF n = 0 THEN "none" ELSE "TypeError"

\* lines 336-356: read deviceList and points in one script; without them the
\* result is [], otherwise the entries are parsed.
get_devices_data_read(t) ==
    /\ pc[t] = "sc_read"
    /\ IF DriverCall(drv[t]) # "none"
          THEN Raise(t, DriverCall(drv[t]))
          ELSE \E hasData \in BOOLEAN, n \in 0..MaxDevices :
                 IF hasData
                    THEN Raise(t, parse_device_data(n))
                    ELSE UNCHANGED exc
    /\ ReturnSub(t)
    /\ UNCHANGED <<client, env, op, drv, log, vm, drv0, diag>>

----
\* _login_oppo_cloud (api.py 150-285)

\* line 152
login_oppo_cloud_entry(t) ==
    /\ pc[t] = "lg_entry"
    /\ CallSub(t, "ac_check", "lg_nav")
    /\ UNCHANGED <<client, env, op, drv, exc, log, vm, drv0, diag>>

\* One driver step of the login flow outside the try block (lines 155-182):
\* it continues at `next`, or raises `failure` out of the function.
LoginStepOutside(t, here, next, outcomes) ==
    /\ pc[t] = here
    /\ IF exc[t] # "none"
          THEN ReturnSub(t) /\ UNCHANGED exc
          ELSE IF DriverCall(drv[t]) # "none"
          THEN Raise(t, DriverCall(drv[t])) /\ ReturnSub(t)
          ELSE \E o \in outcomes :
                 IF o = "none"
                    THEN Goto(t, next) /\ UNCHANGED <<stk, exc>>
                    ELSE Raise(t, o) /\ ReturnSub(t)

\* One driver step inside the try block (lines 184-282): it continues at
\* `next`, or raises into the finally clause.
LoginStepInside(t, here, next, outcomes) ==
    /\ pc[t] = here
    /\ IF DriverCall(drv[t]) # "none"
          THEN Raise(t, DriverCall(drv[t])) /\ Goto(t, "lg_finally")
          ELSE \E o \in outcomes :
                 IF o = "none"
                    THEN Goto(t, next) /\ UNCHANGED exc
                    ELSE Raise(t, o) /\ Goto(t, "lg_finally")
    /\ UNCHANGED stk

\* line 155: driver.get(login page)
login_navigate(t) ==
    /\ LoginStepOutside(t, "lg_nav", "lg_tos", {"none", "Timeout"})
    /\ UNCHANGED <<client, env, op, drv, log, vm, drv0, diag>>

\* contextlib.suppress(*kinds): an exception of one of the kinds ends the
\* block without leaving it
suppress(kinds, o) == IF o \in kinds THEN "none" ELSE o

\* what the wait for an optional dialog ends in: the dialog, or the timeout
DialogWaits == {"none", "Timeout"}

\* the dialogs whose wait timed out in the login in progress, the wait of
\* `dialog` having ended in o (a history kept for the logins that callers
\* who await each call start themselves)
AbsentAfter(t, dialog, o) ==
    diag' = IF o = "Timeout" /\ exc'[t] = "none" /\ serialized /\ op[t] = "login"
               THEN [diag EXCEPT ![t].absent = @ \cup {dialog}]
               ELSE diag

\* _login_oppo_cloud whose wait for the terms dialog is not wrapped
login_dismiss_tos_unsuppressed(t) ==
    /\ \E o \in DialogWaits :
          /\ LoginStepOutside(t, "lg_tos", "lg_signin", {o})
          /\ AbsentAfter(t, "tos", o)
    /\ UNCHANGED <<client, env, op, drv, log, vm, drv0>>

\* lines 158-165: the terms dialog is dismissed when it shows up within 3 s;
\* its absence (TimeoutException) is suppressed.
login_dismiss_tos(t) ==
    /\ \E o \in DialogWaits :
          /\ LoginStepOutside(t, "lg_tos", "lg_signin", {suppress({"Timeout"}, o)})
          /\ AbsentAfter(t, "tos", o)
    /\ UNCHANGED <<client, env, op, drv, log, vm, drv0>>

\* lines 167-176: wait for the "Sign in" affordance and click it
login_click_sign_in(t) ==
    /\ LoginStepOutside(t, "lg_signin", "lg_iframe", {"none", "Timeout"})
    /\ UNCHANGED <<client, env, op, drv, log, vm, drv0, diag>>

\* lines 178-182: wait for the login iframe and switch into it
login_switch_to_iframe(t) ==
    /\ LoginStepOutside(t, "lg_iframe", "lg_fields", {"none", "Timeout"})
    /\ frame' = IF pc'[t] = "lg_fields" THEN frame \cup {drv[t]} ELSE frame
    /\ UNCHANGED <<driver, keep_session, open, nsess, env, op, drv, log, vm, drv0, diag>>

\* lines 185-202: wait for the identifier field, then for the password field
login_fill_fields(t) ==
    /\ \E field \in {"tel", "password"} :
          LoginStepInside(t, "lg_fields", "lg_submit", {"none", "Timeout"})
    /\ UNCHANGED <<client, env, op, drv, log, vm, drv0, diag>>

\* lines 204-244: install the observer, wait for the enabled button, click
login_submit(t) ==
    /\ LoginStepInside(t, "lg_submit", "lg_agree", {"none", "Timeout"})
    /\ UNCHANGED <<client, env, op, drv, log, vm, drv0, diag>>

\* lines 246-262: "Agree and continue" is clicked when it shows up within 5 s;
\* its absence is suppressed.
login_agree_and_continue(t) ==
    /\ \E o \in DialogWaits :
          /\ LoginStepInside(t, "lg_agree", "lg_urlwait", {suppress({"Timeout"}, o)})
          /\ AbsentAfter(t, "agree", o)
    /\ UNCHANGED <<client, env, op, drv, log, vm, drv0>>

\* lines 273-282: the message of the AuthenticationError, from the strings
\* the page's observer captured.  A string is a sequence of characters.

\* s.split(): the maximal runs of non-blank characters of s, in order
RECURSIVE split(_)
split(s) ==
    IF s = <<>> THEN <<>>
    ELSE IF Head(s) = " " THEN split(Tail(s))
    ELSE LET rest == split(Tail(s))
         IN  IF Len(s) > 1 /\ s[2] # " "
                THEN <<<<Head(s)>> \o Head(rest)>> \o Tail(rest)
                ELSE <<<<Head(s)>>>> \o rest

\* sep.join(parts)
RECURSIVE join(_, _)
join(sep, parts) ==
    IF parts = <<>> THEN <<>>
    ELSE IF Len(parts) = 1 THEN parts[1]
    ELSE parts[1] \o sep \o join(sep, Tail(parts))

\* line 277: " ".join(s.split())
normalized(s) == join(<<" ">>, split(s))

\* lines 275-279: the non-empty normalised strings, in the order captured
RECURSIVE clean_captured(_)
clean_captured(captured) ==
    IF captured = <<>> THEN <<>>
    ELSE (IF normalized(Head(captured)) # <<>>
             THEN <<normalized(Head(captured))>> ELSE <<>>)
         \o clean_captured(Tail(captured))

\* list(dict.fromkeys(xs)): xs without the later copies of an element
RECURSIVE fromkeys(_)
fromkeys(xs) ==
    IF xs = <<>> THEN <<>>
    ELSE LET init == fromkeys(SubSeq(xs, 1, Len(xs) - 1))
             x == xs[Len(xs)]
         IN  IF \E i \in DOMAIN init : init[i] = x THEN init ELSE Append(init, x)

\* lines 280-281: the text handed to OppoCloudApiClientAuthenticationError
login_error_message(captured) ==
    IF captured # <<>>
       THEN <<"login, looks like ">> \o join(<<",", " ">>, fromkeys(clean_captured(captured)))
       ELSE <<"login">>

\* Strings the observer of lines 205-225 can have pushed: trimmed text with
\* an error keyword, cut to 200 characters (which can leave a blank at the
\* end); blanks inside are kept as the page has them.
CapturedTexts ==
    { <<"x", " ", "y">>, <<"x", " ", " ", "y">>, <<"y", " ">> }

CapturedLists ==
    UNION { [1..n -> CapturedTexts] :
              n \in 0..(IF Alone THEN MaxCaptured ELSE MaxCapturedConcurrent) }

\* no wait has timed out in the login in progress
NoDiag == [state |-> "none", captured |-> <<>>, message |-> <<>>, absent |-> {}]

\* _login_oppo_cloud whose URL wait is wrapped like the two optional dialogs:
\* its timeout is suppressed
login_wait_url_change_suppressed(t) ==
    /\ pc[t] = "lg_urlwait"
    /\ IF DriverCall(drv[t]) # "none"
          THEN Raise(t, DriverCall(drv[t])) /\ UNCHANGED log
          ELSE \E left \in BOOLEAN :
                 /\ IF left THEN Note(t, <<"url", "left">>) ELSE UNCHANGED log
                 /\ UNCHANGED exc
    /\ Goto(t, "lg_finally")
    /\ UNCHANGED <<client, env, stk, op, drv, vm, drv0, diag>>

\* lines 264-271: the URL leaving the login page within 10 s is the success
\* signal; when the wait times out the handler of lines 271-282 runs.
login_wait_url_change(t) ==
    /\ pc[t] = "lg_urlwait"
    /\ IF DriverCall(drv[t]) # "none"
          THEN /\ Raise(t, DriverCall(drv[t]))
               /\ Goto(t, "lg_finally")
               /\ UNCHANGED <<log, diag>>
          ELSE \E left \in BOOLEAN :
                 IF left
                    THEN /\ Note(t, <<"url", "left">>)
                         /\ Goto(t, "lg_finally")
                         /\ UNCHANGED <<exc, diag>>
                    ELSE /\ Goto(t, "lg_collect")
                         /\ diag' = [diag EXCEPT ![t].state = "timeout"]
                         /\ UNCHANGED <<exc, log>>
    /\ UNCHANGED <<client, env, stk, op, drv, vm, drv0>>

\* lines 271-282, the handler of the timeout: a script reads the captured
\* strings from the page, and the AuthenticationError is raised with the
\* message made of them.  When the script call fails, its WebDriverException
\* leaves the handler instead.
login_collect_errors(t) ==
    /\ pc[t] = "lg_collect"
    /\ IF DriverCall(drv[t]) # "none"
          THEN Raise(t, DriverCall(drv[t])) /\ UNCHANGED diag
          ELSE /\ \E captured \in CapturedLists :
                    diag' = [diag EXCEPT ![t].state = "read",
                                         ![t].captured = captured,
                                         ![t].message = login_error_message(captured)]
               /\ Raise(t, "AuthError")
    /\ Goto(t, "lg_finally")
    /\ UNCHANGED <<client, env, stk, op, drv, log, vm, drv0>>

\* _login_oppo_cloud that switches back after the try block instead of in a
\* finally clause
login_finally_on_success_only(t) ==
    /\ pc[t] = "lg_finally"
    /\ frame' = IF exc[t] = "none" THEN frame \ {drv[t]} ELSE frame
    /\ ReturnSub(t)
    /\ UNCHANGED <<driver, keep_session, open, nsess, env, op, drv, exc, log, vm, drv0, diag>>

\* lines 283-285: back to the top-level document, WebDriverException suppressed
login_finally(t) ==
    /\ pc[t] = "lg_finally"
    /\ frame' = frame \ {drv[t]}
    /\ ReturnSub(t)
    /\ UNCHANGED <<driver, keep_session, open, nsess, env, op, drv, exc, log, vm, drv0, diag>>

----
\* async_login_oppo_cloud (api.py 133-148)

\* async_login_oppo_cloud without the clause of lines 141-142
LoginWrap_without_communication_clause(e) ==
    IF e \in {"none", "AuthError"} THEN e ELSE "ClientError"

\* The except clauses: the two client kinds named pass unchanged, every other
\* exception leaves as the base OppoCloudApiClientError.
LoginWrap(e) ==
    IF e \in {"none", "AuthError", "CommError"} THEN e ELSE "ClientError"

async_login_oppo_cloud_entry(t) ==
    /\ pc[t] = "al_entry"
    /\ CallSub(t, "lg_entry", "al_ret")
    /\ UNCHANGED <<client, env, op, drv, exc, log, vm, drv0, diag>>

async_login_oppo_cloud_return(t) ==
    /\ pc[t] = "al_ret"
    /\ Raise(t, LoginWrap(exc[t]))
    /\ Note(t, <<"login", LoginWrap(exc[t])>>)
    /\ diag' = [diag EXCEPT ![t] = NoDiag]
    /\ ReturnSub(t)
    /\ UNCHANGED <<client, env, op, drv, vm, drv0>>

----
\* async_get_data (api.py 287-311)

\* async_get_data that logs in first whatever the keep-session flag says
async_get_data_entry_always_login(t) ==
    /\ pc[t] = "gd_entry"
    /\ CallSub(t, "al_entry", "gd_after_login")
    /\ UNCHANGED <<client, env, op, drv, exc, log, vm, drv0, diag>>

\* lines 290-295: without keep-session the coroutine logs in first, with it
\* it goes straight to the scrape
async_get_data_entry(t) ==
    /\ pc[t] = "gd_entry"
    /\ IF ~keep_session
          THEN CallSub(t, "al_entry", "gd_after_login")
          ELSE CallSub(t, "sc_entry", "gd_after_scrape")
    /\ UNCHANGED <<client, env, op, drv, exc, log, vm, drv0, diag>>

\* line 293, reached when the login of line 292 returned
async_get_data_scrape(t) ==
    /\ pc[t] = "gd_after_login"
    /\ exc[t] = "none"
    /\ CallSub(t, "sc_entry", "gd_after_scrape")
    /\ UNCHANGED <<client, env, op, drv, exc, log, vm, drv0, diag>>

\* the scrape of lines 293-295 is over: its outcome is recorded
async_get_data_scraped(t) ==
    /\ pc[t] = "gd_after_scrape"
    /\ Note(t, <<"scrape", exc[t]>>)
    /\ vm' = [vm EXCEPT ![t] = "unseen"]
    /\ Goto(t, IF exc[t] = "none" THEN "gd_finally" ELSE "gd_except")
    /\ UNCHANGED <<client, env, stk, op, drv, exc, drv0, diag>>

\* lines 301-306: what the last two except clauses make of an exception
GetDataWrap(e) == "ClientError"

\* lines 296-306: the except clauses of the try block.  An
\* AuthenticationError starts the login of line 299; a TimeoutException and
\* every other Exception leave as the base OppoCloudApiClientError.
async_get_data_except(t) ==
    /\ \/ pc[t] = "gd_except"
       \/ pc[t] = "gd_after_login" /\ exc[t] # "none"
    /\ IF exc[t] = "AuthError"
          THEN /\ CallSub(t, "al_entry", "gd_after_relogin")
               /\ Raise(t, "none")
          ELSE /\ Raise(t, GetDataWrap(exc[t]))
               /\ Goto(t, "gd_finally")
               /\ UNCHANGED stk
    /\ UNCHANGED <<client, env, op, drv, log, vm, drv0, diag>>

\* line 300: after the login of line 299 the coroutine calls itself, and the
\* inner call's result or exception is this frame's: the inner call returns
\* into this frame's finally clause.  A failed login leaves the handler as it
\* is, through the finally clause.
async_get_data_retry(t) ==
    /\ pc[t] = "gd_after_relogin"
    /\ IF exc[t] = "none"
          THEN /\ Depth(t) < (IF Alone THEN MaxDepth ELSE MaxDepthConcurrent)
               /\ CallSub(t, "gd_entry", "gd_finally")
          ELSE Goto(t, "gd_finally") /\ UNCHANGED stk
    /\ UNCHANGED <<client, env, op, drv, exc, log, vm, drv0, diag>>

\* async_get_data whose cleanup sits after the try block instead of in finally
async_get_data_finally_on_return_only(t) ==
    /\ pc[t] = "gd_finally"
    /\ IF ~keep_session /\ exc[t] = "none"
          THEN CallSub(t, "cl_entry", "gd_ret")
          ELSE Goto(t, "gd_ret") /\ UNCHANGED stk
    /\ UNCHANGED <<client, env, op, drv, exc, log, vm, drv0, diag>>

\* lines 307-311: without keep-session the session is cleaned up, then the
\* frame returns or re-raises
async_get_data_finally(t) ==
    /\ pc[t] = "gd_finally"
    /\ IF ~keep_session
          THEN CallSub(t, "cl_entry", "gd_ret")
          ELSE Goto(t, "gd_ret") /\ UNCHANGED stk
    /\ UNCHANGED <<client, env, op, drv, exc, log, vm, drv0, diag>>

async_get_data_return(t) ==
    /\ pc[t] = "gd_ret"
    /\ ReturnSub(t)
    /\ UNCHANGED <<client, env, op, drv, exc, log, vm, drv0, diag>>

----
\* async_test_connection / _test_connection (api.py 443-467)

async_test_connection_entry(t) ==
    /\ pc[t] = "tc_entry"
    /\ CallSub(t, "ac_check", "tc_nav")
    /\ UNCHANGED <<client, env, op, drv, exc, log, vm, drv0, diag>>

\* lines 456-467 and 449-451: load the login page and wait for its body.  On
\* any exception the handler calls self._cleanup_driver(), which the class does
\* not define: the AttributeError replaces the exception, nothing is torn
\* down, and async_test_connection raises it as a CommunicationError.
test_connection(t) ==
    /\ pc[t] = "tc_nav"
    /\ IF exc[t] # "none" \/ DriverCall(drv[t]) # "none"
          THEN Raise(t, "CommError")
          ELSE \E body \in {"none", "Timeout"} :
                 Raise(t, IF body = "none" THEN "none" ELSE "CommError")
    /\ ReturnSub(t)
    /\ UNCHANGED <<client, env, op, drv, log, vm, drv0, diag>>

----
\* The public entry points, as a caller starts them.

call_async_get_data(t) ==
    /\ Start(t, "get_data", "gd_entry")
    /\ UNCHANGED <<client, serialized, scheme, raw, parsed, other>>

call_async_login_oppo_cloud(t) ==
    /\ Start(t, "login", "al_entry")
    /\ UNCHANGED <<client, serialized, scheme, raw, parsed, other>>

call_async_test_connection(t) ==
    /\ Start(t, "test_connection", "tc_entry")
    /\ UNCHANGED <<client, serialized, scheme, raw, parsed, other>>

call_async_cleanup(t) ==
    /\ Start(t, "cleanup", "cl_entry")
    /\ UNCHANGED <<client, serialized, scheme, raw, parsed, other>>

\* async_set_keep_browser_session that forgets the handle instead of cleaning
\* the session up
async_set_keep_browser_session_drop(t, keep) ==
    /\ Start(t, IF keep_session /\ ~keep THEN "set_keep_off" ELSE "set_keep", "done")
    /\ keep_session' = keep
    /\ driver' = IF ~keep THEN None ELSE driver
    /\ UNCHANGED <<open, nsess, frame, serialized, scheme, raw, parsed, other>>

\* async_set_keep_browser_session (api.py 74-79): the flag is stored, and a
\* session held while the flag goes off is cleaned up
async_set_keep_browser_session(t, keep) ==
    /\ Start(t, IF keep_session /\ ~keep THEN "set_keep_off" ELSE "set_keep",
                IF ~keep /\ driver # None THEN "cl_entry" ELSE "done")
    /\ keep_session' = keep
    /\ UNCHANGED <<driver, open, nsess, frame, serialized, scheme, raw, parsed, other>>

\* set_keep_browser_session (api.py 70-72): the flag is stored, nothing else
set_keep_browser_session(keep) ==
    /\ MayCall
    /\ keep_session' = keep
    /\ last' = IF keep_session /\ ~keep THEN "keep_off" ELSE "other"
    /\ UNCHANGED <<driver, open, nsess, frame, serialized, scheme, raw, parsed, other,
                   pc, stk, op, drv, exc, log, vm, drv0, diag>>

\* OppoCloudKeepSessionSwitch.async_turn_on / async_turn_off (switch.py 61-77):
\* _is_on is stored (nothing of the client reads it), then
\* _update_api_client_setting calls client.set_keep_session, which
\* OppoCloudApiClient does not define: the AttributeError leaves the client,
\* its keep-session flag included, as it was.
switch_turn(on) ==
    /\ MayCall
    /\ last' = "other"
    /\ UNCHANGED <<client, serialized, scheme, raw, parsed, other, pc, stk, op, drv, exc, log, vm, drv0, diag>>

\* What is remembered of a completed call: whether it was a fetch that
\* returned records with keep-session on, or a call that switched keep-session
\* from on to off.
LastOf(o, e, keep) ==
    IF o = "get_data" /\ e = "none" /\ keep THEN "fetched_kept"
    ELSE IF o = "set_keep_off" THEN "keep_off"
    ELSE "other"

\* The caller receives the result or the exception of its call.
complete(t) ==
    /\ pc[t] = "done"
    /\ last' = LastOf(op[t], exc[t], keep_session)
    /\ pc' = [pc EXCEPT ![t] = "idle"]
    /\ op' = [op EXCEPT ![t] = "none"]
    /\ exc' = [exc EXCEPT ![t] = "none"]
    /\ log' = [log EXCEPT ![t] = <<>>]
    /\ drv' = [drv EXCEPT ![t] = None]
    /\ drv0' = [drv0 EXCEPT ![t] = None]
    /\ UNCHANGED <<vm, diag>>
    /\ UNCHANGED <<client, serialized, scheme, raw, parsed, other, ncalls, stk>>

----
\* The remote browser: an open session may crash or be reaped at any time.
session_lost(s) ==
    /\ s \in open
    /\ open' = open \ {s}
    /\ frame' = frame \ {s}
    /\ UNCHANGED <<driver, keep_session, nsess, env, pc, stk, op, drv, exc, log, vm, drv0, diag>>

----
\* _parse_device_data (api.py 358-441), entry by entry.
\* Strings are sequences of characters; a value that may be None is a
\* sequence too, None being NoneValue.

NoneValue == <<"None">>

\* the separator of lines 381-382, one character
Sep == "|"

\* s.strip()
RECURSIVE lstrip(_)
lstrip(s) == IF s # <<>> /\ Head(s) = " " THEN lstrip(Tail(s)) ELSE s

RECURSIVE rstrip(_)
rstrip(s) ==
    IF s # <<>> /\ s[Len(s)] = " " THEN rstrip(SubSeq(s, 1, Len(s) - 1)) ELSE s

strip(s) == lstrip(rstrip(s))

\* sub in s
contains(s, sub) ==
    \E i \in 1..(Len(s) - Len(sub) + 1) : SubSeq(s, i, i + Len(sub) - 1) = sub

\* s.find(sub) counted from 1 (0: not found)
find(s, sub) ==
    IF contains(s, sub)
       THEN CHOOSE i \in 1..(Len(s) - Len(sub) + 1) :
                /\ SubSeq(s, i, i + Len(sub) - 1) = sub
                /\ \A j \in 1..(i - 1) : SubSeq(s, j, j + Len(sub) - 1) # sub
       ELSE 0

\* s.split(sub, 1): the list of one or two parts
split1(s, sub) ==
    IF find(s, sub) = 0
       THEN <<s>>
       ELSE <<SubSeq(s, 1, find(s, sub) - 1),
              SubSeq(s, find(s, sub) + Len(sub), Len(s))>>

\* float(s) succeeds on these
Numerals == {"31", "32", "33", "121", "122", "123"}

\* gcj2wgs (gcj2wgs.py 41-49): the pair is shifted by delta(lat, lng), each
\* result depending on both arguments; arithmetic on a value that is no number
\* raises TypeError
gcj2wgs(gcjLat, gcjLng) ==
    IF gcjLat \in Numerals /\ gcjLng \in Numerals
       THEN [exc |-> "none",
             latitude |-> <<"wgs_lat", gcjLat, gcjLng>>,
             longitude |-> <<"wgs_lng", gcjLat, gcjLng>>]
       ELSE [exc |-> "TypeError", latitude |-> NoneValue, longitude |-> NoneValue]

\* the fields of the dataclass (data.py 28-38), none with a default
OppoCloudDeviceFields ==
    {"device_model", "location_name", "latitude", "longitude",
     "battery_level", "last_seen", "is_online"}

\* OppoCloudDevice(**kwargs): the generated __init__ raises TypeError when a
\* required argument is missing
OppoCloudDevice(kwargs) ==
    IF OppoCloudDeviceFields \subseteq DOMAIN kwargs
       THEN [exc |-> "none", record |-> kwargs]
       ELSE [exc |-> "TypeError", record |-> kwargs]

\* lines 378-385: location_name and last_seen of an entry. The test of line
\* 381 looks for the separator, the split of line 382 for the separator with a
\* space on each side; the two-name unpacking raises ValueError on a list of
\* one part.
parse_poi(device) ==
    IF contains(device.poi, <<Sep>>)
       THEN LET parts == split1(device.poi, <<" ", Sep, " ">>)
            IN  IF Len(parts) = 2
                   THEN [exc |-> "none",
                         location_name |-> strip(parts[1]),
                         last_seen |-> strip(parts[2])]
                   ELSE [exc |-> "ValueError",
                         location_name |-> NoneValue, last_seen |-> NoneValue]
       ELSE [exc |-> "none",
             location_name |-> strip(device.poi),
             last_seen |-> device.poiTime]

NoCoordinates == [exc |-> "none", latitude |-> NoneValue, longitude |-> NoneValue]

\* lines 395-411: the points entry of the same index; KeyError, ValueError and
\* TypeError of the conversion are caught and leave both coordinates None
coordinates_from_points(points, idx) ==
    IF idx <= Len(points)
          /\ points[idx].kind = "dict"
          /\ points[idx].lat # "absent"
          /\ points[idx].lng # "absent"
       THEN IF gcj2wgs(points[idx].lat, points[idx].lng).exc = "none"
               THEN gcj2wgs(points[idx].lat, points[idx].lng)
               ELSE NoCoordinates
       ELSE NoCoordinates

\* lines 414-428: the "coordinate" field of the entry; ValueError and
\* AttributeError are caught, the TypeError of `"," in coord_str` on a number
\* is not
coordinates_from_string(device) ==
    LET coord_str == device.coordinate
    IN  IF coord_str.kind = "number"
           THEN [exc |-> "TypeError", latitude |-> NoneValue, longitude |-> NoneValue]
        ELSE IF coord_str.kind = "str" /\ contains(coord_str.text, <<",">>)
           THEN LET parts == split1(coord_str.text, <<",">>)
                IN  IF Len(parts[1]) = 1 /\ parts[1][1] \in Numerals
                          /\ Len(parts[2]) = 1 /\ parts[2][1] \in Numerals
                       THEN gcj2wgs(parts[1][1], parts[2][1])
                       ELSE NoCoordinates
        ELSE NoCoordinates

\* lines 393-428: points entry first, then the coordinate field
parse_coordinates(device, points, idx) ==
    IF coordinates_from_points(points, idx).latitude = NoneValue
          /\ device.coordinate.kind # "absent"
       THEN coordinates_from_string(device)
       ELSE coordinates_from_points(points, idx)

\* lines 387-391
is_online(device) == device.onlineStatus = 1 \/ device.locationStatus = "online"

\* lines 374-439: one turn of the loop; the record is built without
\* battery_level, which no line of the parser reads
parse_entry(device, points, idx) ==
    IF parse_poi(device).exc # "none"
       THEN [exc |-> parse_poi(device).exc, record |-> <<>>]
    ELSE IF parse_coordinates(device, points, idx).exc # "none"
       THEN [exc |-> parse_coordinates(device, points, idx).exc, record |-> <<>>]
    ELSE OppoCloudDevice(
            [device_model |-> device.deviceName,
             location_name |-> parse_poi(device).location_name,
             latitude |-> parse_coordinates(device, points, idx).latitude,
             longitude |-> parse_coordinates(device, points, idx).longitude,
             last_seen |-> parse_poi(device).last_seen,
             is_online |-> is_online(device)])

\* lines 372-441: the loop; an exception of a turn leaves the parser
RECURSIVE parse_from(_, _, _, _)
parse_from(devices, points, idx, result) ==
    IF idx > Len(devices)
       THEN [state |-> "returned", exc |-> "none", result |-> result]
    ELSE IF parse_entry(devices[idx], points, idx).exc # "none"
       THEN [state |-> "returned",
             exc |-> parse_entry(devices[idx], points, idx).exc,
             result |-> <<>>]
    ELSE parse_from(devices, points, idx + 1,
                    Append(result, parse_entry(devices[idx], points, idx).record))

\* the raw inputs: entries of window.$findVm.deviceList ...
PoiStrings ==
    { <<"h", "o", " ", Sep, " ", "9">>,    \* separator with spaces
      <<"h", "o", Sep, "9">>,              \* separator without spaces
      <<" ", "h", "o", " ">> }             \* no separator

PoiTimes == { NoneValue, <<"8">> }

CoordinateFields ==
    { [kind |-> "absent", text |-> <<>>],
      [kind |-> "str", text |-> <<"33">>],
      [kind |-> "str", text |-> <<"x", ",", "123">>],
      [kind |-> "str", text |-> <<"33", ",", "123">>],
      [kind |-> "number", text |-> <<>>] }

BatteryFields == { "absent", "85%" }

RawDeviceEntries ==
    [deviceName : {<<"A">>}, poi : PoiStrings, poiTime : PoiTimes,
     coordinate : CoordinateFields, battery : BatteryFields,
     onlineStatus : {1}, locationStatus : {"online"}]

\* ... and of window.$findVm.points
RawPoints ==
    { [kind |-> "null", lat |-> "absent", lng |-> "absent"],
      [kind |-> "dict", lat |-> "31", lng |-> "absent"],
      [kind |-> "dict", lat |-> "x", lng |-> "121"],
      [kind |-> "dict", lat |-> "31", lng |-> "121"],
      [kind |-> "dict", lat |-> "32", lng |-> "122"] }

SeqsUpTo(S, n) == UNION { [1..k -> S] : k \in 0..n }

RawInputs ==
    [devices : SeqsUpTo(RawDeviceEntries, MaxEntries) \ {<<>>},
     points : SeqsUpTo(RawPoints, MaxEntries)]

NoInput == [devices |-> <<>>, points |-> <<>>]

NotParsed == [state |-> "pending", exc |-> "none", result |-> <<>>]

\* _parse_device_data(devices, points) on the input at hand
parse_device_data_call ==
    /\ parsed.state = "pending"
    /\ raw # NoInput
    /\ parsed' = parse_from(raw.devices, raw.points, 1, <<>>)
    /\ UNCHANGED <<client, scheme, serialized, ncalls, last, raw, other,
                   pc, stk, op, drv, exc, log, vm, drv0, diag>>

----
\* A second OppoCloudApiClient on the same Selenium Grid.  It runs the code of
\* the first; what the first can observe of it is what its operations do to
\* its own attributes and to the grid's sessions, taken here one operation at
\* a time.

\* no second client
NoOther == [exists |-> FALSE, driver |-> None, keep_session |-> FALSE]

\* __init__ (api.py 57-68) of the second client: no session, keep-session off
NewOther == [exists |-> TRUE, driver |-> None, keep_session |-> FALSE]

\* the second client's state is its own
OtherStep ==
    UNCHANGED <<driver, keep_session, frame, scheme, serialized, ncalls, last,
                raw, parsed, pc, stk, op, drv, exc, log, vm, drv0, diag>>

\* _get_or_create_driver on a class whose _driver is shared by its instances
other_get_or_create_driver_shared ==
    /\ other.exists
    /\ other.driver = None \/ other.driver \notin open
    /\ IF nsess < MaxSessions
          THEN /\ nsess' = nsess + 1
               /\ open' = open \cup {nsess + 1}
               /\ other' = [other EXCEPT !.driver = nsess + 1]
               /\ driver' = nsess + 1
          ELSE /\ other' = [other EXCEPT !.driver = None]
               /\ driver' = None
               /\ UNCHANGED <<open, nsess>>
    /\ UNCHANGED <<keep_session, frame, scheme, serialized, ncalls, last,
                   raw, parsed, pc, stk, op, drv, exc, log, vm, drv0, diag>>

\* _get_or_create_driver (api.py 81-114) of the second client: a live handle
\* is kept; otherwise webdriver.Remote gives it a session of its own, or fails
\* and leaves it without a handle
other_get_or_create_driver ==
    /\ other.exists
    /\ other.driver = None \/ other.driver \notin open
    /\ IF nsess < MaxSessions
          THEN /\ nsess' = nsess + 1
               /\ open' = open \cup {nsess + 1}
               /\ other' = [other EXCEPT !.driver = nsess + 1]
          ELSE /\ other' = [other EXCEPT !.driver = None]
               /\ UNCHANGED <<open, nsess>>
    /\ OtherStep

\* _cleanup_driver (api.py 121-131) of the second client: its session is quit
\* and its handle cleared
other_cleanup_driver ==
    /\ other.exists
    /\ other.driver # None
    /\ open' = open \ {other.driver}
    /\ other' = [other EXCEPT !.driver = None]
    /\ UNCHANGED nsess
    /\ OtherStep

\* set_keep_browser_session (api.py 70-72) of the second client
other_set_keep_browser_session(keep) ==
    /\ other.exists
    /\ other.keep_session # keep
    /\ other' = [other EXCEPT !.keep_session = keep]
    /\ UNCHANGED <<open, nsess>>
    /\ OtherStep

----
\* __init__ (api.py 57-68): no session, keep-session off.
InitClient ==
    /\ driver = None
    /\ keep_session = FALSE
    /\ open = {}
    /\ nsess = 0
    /\ frame = {}
    /\ scheme \in Schemes
    /\ ncalls = 0
    /\ pc = [t \in Tasks |-> "idle"]
    /\ stk = [t \in Tasks |-> <<>>]
    /\ op = [t \in Tasks |-> "none"]
    /\ drv = [t \in Tasks |-> None]
    /\ exc = [t \in Tasks |-> "none"]
    /\ log = [t \in Tasks |-> <<>>]
    /\ vm = [t \in Tasks |-> "unseen"]
    /\ drv0 = [t \in Tasks |-> None]
    /\ diag = [t \in Tasks |-> NoDiag]
    /\ last = "other"
    /\ other \in {NoOther, NewOther}

Init ==
    /\ InitClient
    /\ serialized = TRUE
    /\ other = NoOther
    /\ raw = NoInput
    /\ parsed = NotParsed

InitConcurrent ==
    /\ InitClient
    /\ serialized = FALSE
    /\ other = NoOther
    /\ raw = NoInput
    /\ parsed = NotParsed

\* two clients just constructed
InitTwoClients ==
    /\ InitClient
    /\ serialized = TRUE
    /\ other = NewOther
    /\ raw = NoInput
    /\ parsed = NotParsed

\* the parser alone, on every raw input within the bounds
InitParse ==
    /\ InitClient
    /\ serialized = TRUE
    /\ scheme = "http"
    /\ other = NoOther
    /\ raw \in RawInputs
    /\ parsed = NotParsed

NextParse == parse_device_data_call

Next ==
    \/ \E t \in Tasks :
          \/ call_async_get_data(t)
          \/ call_async_login_oppo_cloud(t)
          \/ call_async_test_connection(t)
          \/ call_async_cleanup(t)
          \/ \E keep \in BOOLEAN : async_set_keep_browser_session(t, keep)
          \/ async_cleanup_entry(t)
          \/ cleanup_driver(t)
          \/ get_or_create_driver_check(t)
          \/ get_or_create_driver_create(t)
          \/ get_or_create_driver_return(t)
          \/ get_devices_data_entry(t)
          \/ get_devices_data_navigate(t)
          \/ get_devices_data_wait(t)
          \/ get_devices_data_read(t)
          \/ login_oppo_cloud_entry(t)
          \/ login_navigate(t)
          \/ login_dismiss_tos(t)
          \/ login_click_sign_in(t)
          \/ login_switch_to_iframe(t)
          \/ login_fill_fields(t)
          \/ login_submit(t)
          \/ login_agree_and_continue(t)
          \/ login_wait_url_change(t)
          \/ login_collect_errors(t)
          \/ login_finally(t)
          \/ async_login_oppo_cloud_entry(t)
          \/ async_login_oppo_cloud_return(t)
          \/ async_get_data_entry(t)
          \/ async_get_data_scrape(t)
          \/ async_get_data_scraped(t)
          \/ async_get_data_except(t)
          \/ async_get_data_retry(t)
          \/ async_get_data_finally(t)
          \/ async_get_data_return(t)
          \/ async_test_connection_entry(t)
          \/ test_connection(t)
          \/ complete(t)
    \/ \E keep \in BOOLEAN : set_keep_browser_session(keep)
    \/ \E on \in BOOLEAN : switch_turn(on)
    \/ \E s \in Sessions : session_lost(s)

\* Callers that await each call before the next one.
Spec == Init /\ [][Next]_vars

\* Callers that start calls on the client while others are in flight.
SpecConcurrent == InitConcurrent /\ [][Next]_vars

\* _parse_device_data applied to each raw input
SpecParse == InitParse /\ [][NextParse]_vars

\* two clients, each with callers that await each call
NextTwoClients ==
    \/ Next
    \/ other_get_or_create_driver
    \/ other_cleanup_driver
    \/ \E keep \in BOOLEAN : other_set_keep_browser_session(keep)

SpecTwoClients == InitTwoClients /\ [][NextTwoClients]_vars

----
\* Properties of the client.

Done(t) == pc[t] = "done"

Scrapes(t) == SelectSeq(log[t], LAMBDA e : e[1] = "scrape")
Logins(t) == SelectSeq(log[t], LAMBDA e : e[1] = "login")

\* position in log[t] of the first recorded scrape (0: none yet)
FirstScrape(t) ==
    IF \E i \in DOMAIN log[t] : log[t][i][1] = "scrape"
       THEN CHOOSE i \in DOMAIN log[t] :
               /\ log[t][i][1] = "scrape"
               /\ \A j \in 1..(i - 1) : log[t][j][1] # "scrape"
       ELSE 0

LoginsAfterFirstScrape(t) ==
    Cardinality({i \in DOMAIN log[t] : i > FirstScrape(t) /\ log[t][i][1] = "login"})

Created(t) == \E i \in DOMAIN log[t] : log[t][i] = <<"create", "ok">>

\* C1: in an async_get_data call whose first scrape fails with
\* AuthenticationError, login runs once and the scrape once more; a second
\* AuthenticationError from the scrape is the call's result, with no further
\* login or scrape.
C1_OneLoginOneRetry ==
    \A t \in Tasks :
        (op[t] = "get_data" /\ FirstScrape(t) # 0 /\ log[t][FirstScrape(t)][2] = "AuthError")
        => /\ Len(Scrapes(t)) <= 2
           /\ LoginsAfterFirstScrape(t) <= 1
           /\ (Len(Scrapes(t)) = 2 /\ Scrapes(t)[2][2] = "AuthError" /\ Done(t))
                 => exc[t] = "AuthError"

\* C2: one async_get_data call never makes more than two scrape attempts
\* (so it completes even when every scrape after a successful login reports
\* AuthenticationError).
C2_AtMostTwoScrapes ==
    \A t \in Tasks : op[t] = "get_data" => Len(Scrapes(t)) <= 2

\* C3: with keep-session off, a completed async_get_data call, whatever it
\* returns or raises and whether or not it logged in and retried, leaves no
\* session handle.
C3_FetchReleasesSession ==
    \A t \in Tasks :
        (Done(t) /\ op[t] = "get_data" /\ ~keep_session) => driver = None

\* C3 witness: such a call that logged in after a failed scrape, retried and
\* returned, and one that raised.
C3_Witness ==
    \E t \in Tasks :
        /\ Done(t) /\ op[t] = "get_data" /\ ~keep_session
        /\ exc[t] = "none"
        /\ Created(t)
        /\ \E i \in DOMAIN log[t] : log[t][i] = <<"scrape", "AuthError">>

\* C4: with keep-session on and the remote session alive, the second of two
\* successive async_get_data calls that return creates no session and ends
\* holding the handle the first one left.
C4_HandleReused ==
    \A t \in Tasks :
        (/\ Done(t) /\ op[t] = "get_data" /\ exc[t] = "none"
         /\ keep_session /\ last = "fetched_kept"
         /\ drv0[t] \in open)
        => driver = drv0[t] /\ ~Created(t)

C4_Witness ==
    \E t \in Tasks :
        /\ Done(t) /\ op[t] = "get_data" /\ exc[t] = "none"
        /\ keep_session /\ last = "fetched_kept"
        /\ drv0[t] \in open
        /\ driver = drv0[t]

\* C5: an error of a client kind other than AuthenticationError that reaches
\* the except clauses of async_get_data (a CommunicationError from session
\* acquisition in the scrape or in the login) leaves the call as the same
\* kind, with no login and no retry.
C5_OtherKindsPropagate ==
    [][\A t \in Tasks :
          (/\ pc[t] \in {"gd_except", "gd_after_login"}
           /\ exc[t] \in {"CommError", "ClientError"}
           /\ pc'[t] # pc[t])
          => exc'[t] = exc[t] /\ pc'[t] = "gd_finally"]_vars

\* C6: when the scrape's wait times out on a page whose state object holds an
\* explicitly empty device list, the scrape returns (an empty result) and
\* raises no AuthenticationError.
C6_EmptyListIsNoAuthError ==
    \A t \in Tasks :
        (pc[t] = "gd_after_scrape" /\ vm[t] = "emptylist") => exc[t] = "none"

\* C7: two calls of the public entry points of one client never run
\* interleaved: at most one is between its start and its completion.
C7_SingleFlight ==
    Cardinality({t \in Tasks : pc[t] \notin {"idle", "done"}}) <= 1

\* C8: at most one session created by the client is open at any time, also
\* under concurrent calls.
C8_AtMostOneLiveSession == Cardinality(open) <= 1

\* C9: once a call that switched keep-session from on to off has completed,
\* by whichever setter, the client holds no session.
C9_KeepOffReleases ==
    (last = "keep_off" /\ \A t \in Tasks : Idle(t)) => driver = None

\* C10: async_cleanup ends without a handle and without raising, also when
\* quit() raises a WebDriverException; called without a handle it dispatches
\* nothing and stays without one (so a second call changes nothing).
C10_CleanupTotalIdempotent ==
    \A t \in Tasks :
        op[t] = "cleanup"
        => /\ Done(t) => (driver = None /\ exc[t] = "none")
           /\ drv0[t] = None => (driver = None /\ pc[t] # "cl_quit" /\ log[t] = <<>>)

\* C10 witness: a cleanup of a held session whose quit() raised
C10_Witness ==
    \E t \in Tasks :
        /\ Done(t) /\ op[t] = "cleanup" /\ drv0[t] # None
        /\ log[t] = <<<<"quit", "WDE">>>>
        /\ driver = None /\ exc[t] = "none"

\* The labels at which a task stands when _get_or_create_driver has returned
\* or raised into its caller.
AfterAcquire == {"sc_nav", "lg_nav", "tc_nav"}

\* C11: the handle goes from a session to None only in a step of the teardown
\* (_cleanup_driver); no other step, such as session acquisition finding the
\* cached handle dead, clears it.
C11_OnlyTeardownClears ==
    [][(driver # None /\ driver' = None)
          => \E t \in Tasks : pc[t] = "cl_quit" /\ pc'[t] # "cl_quit"]_vars

\* C11 as amended: the handle goes from a session to None only in a step of
\* the teardown or in the step of session acquisition that finds the cached
\* handle's session gone.
C11_OnlyTeardownOrDeadProbeClears ==
    [][(driver # None /\ driver' = None)
          => \E t \in Tasks :
                \/ pc[t] = "cl_quit" /\ pc'[t] # "cl_quit"
                \/ pc[t] = "ac_check" /\ pc'[t] = "ac_create" /\ driver \notin open]_vars

\* C11 witness: an acquisition dropped a dead handle, and no teardown ran
C11_Witness ==
    \E t \in Tasks :
        /\ pc[t] = "ac_create" /\ drv0[t] # None /\ driver = None
        /\ op[t] = "test_connection" /\ log[t] = <<>>

\* C12: session acquisition with a live cached handle goes straight to its
\* return with the handle, the sessions and the session count untouched; with
\* a dead cached handle (or none) it goes on to connect, and when the
\* connection is made the handle is a session that did not exist before and is
\* open; the handle returned is the client's handle.
C12_AcquireIdempotent ==
    [][\A t \in Tasks :
          /\ (pc[t] = "ac_check" /\ pc'[t] # "ac_check")
                => IF driver # None /\ driver \in open
                      THEN /\ pc'[t] = "ac_ret"
                           /\ driver' = driver /\ nsess' = nsess /\ open' = open
                      ELSE pc'[t] = "ac_create" /\ nsess' = nsess /\ open' = open
          /\ (pc[t] = "ac_create" /\ pc'[t] = "ac_ret")
                => /\ driver' \notin 0..nsess
                   /\ driver' \in open'
                   /\ nsess' = nsess + 1
          /\ (pc[t] = "ac_ret" /\ pc'[t] # "ac_ret")
                => drv'[t] = driver /\ driver' = driver /\ open' = open]_vars

\* C12 witness: an acquisition that began with a cached handle whose session
\* was gone and returned a new, open one
C12_Witness ==
    /\ \E t \in Tasks :
          /\ op[t] = "test_connection" /\ pc[t] = "tc_nav" /\ exc[t] = "none"
          /\ drv0[t] # None /\ drv[t] # None /\ drv[t] # drv0[t]
          /\ drv[t] \in open
    /\ nsess = 2

\* C13: when session acquisition raises, the exception is a
\* CommunicationError and the client holds no handle.
C13_FailedAcquireLeavesNoHandle ==
    \A t \in Tasks :
        (pc[t] \in AfterAcquire /\ exc[t] # "none")
        => exc[t] = "CommError" /\ driver = None

\* C13 witness: an acquisition that found its cached handle dead and then
\* failed to connect
C13_Witness ==
    \E t \in Tasks :
        /\ pc[t] \in AfterAcquire /\ exc[t] = "CommError"
        /\ drv0[t] # None /\ driver = None

\* C14: with a URL of a scheme other than ws, wss, http, https, session
\* acquisition never reaches its connection step (webdriver.Remote), and what
\* it raises is a CommunicationError.
C14_BadSchemeNoAttempt ==
    scheme = "other"
    => \A t \in Tasks :
          /\ pc[t] # "ac_create"
          /\ pc[t] \in AfterAcquire => exc[t] = "CommError"

\* C15: a fetch or login under which async_cleanup tore the session down
\* never returns a result and never goes on to create a session.
C15_CleanupFailsInFlight ==
    \A t \in Tasks : \A i \in DOMAIN log[t] :
        (op[t] \in {"get_data", "login"} /\ log[t][i] = <<"cut", "cleanup">>)
        => /\ Done(t) => exc[t] # "none"
           /\ \A j \in DOMAIN log[t] : j > i => log[t][j] # <<"create", "ok">>

\* C16: a login that returns normally observed the URL leave the login page
\* as its last step, and a login whose URL wait timed out raises.
C16_LoginReturnsOnlyAfterUrlChange ==
    \A t \in Tasks :
        /\ \A i \in DOMAIN log[t] :
              log[t][i] = <<"login", "none">>
              => i > 1 /\ log[t][i - 1] = <<"url", "left">>
        /\ diag[t].state # "none" => exc[t] # "none" \/ pc[t] = "lg_collect"

C16_Witness ==
    \E t \in Tasks :
        /\ Done(t) /\ op[t] = "login" /\ exc[t] = "none"
        /\ log[t][Len(log[t])] = <<"login", "none">>
        /\ log[t][Len(log[t]) - 1] = <<"url", "left">>

\* C17: a TimeoutException that leaves _login_oppo_cloud (a timed-out
\* mandatory wait) leaves async_login_oppo_cloud as an error of a kind of its
\* own: not AuthenticationError, not CommunicationError, not the base kind.
C17_LoginTimeoutIsOwnKind ==
    [][\A t \in Tasks :
          (pc[t] = "al_ret" /\ exc[t] = "Timeout" /\ pc'[t] # "al_ret")
          => exc'[t] \notin ClientKinds \cup {"none"}]_vars

\* s without its leading and trailing blanks and with every run of blanks
\* inside reduced to one
Squeezed(s) ==
    LET K == {i \in DOMAIN s :
                \/ s[i] # " "
                \/ /\ i > 1 /\ s[i - 1] # " "
                   /\ \E j \in DOMAIN s : j > i /\ s[j] # " "}
    IN  [k \in 1..Cardinality(K) |->
            s[CHOOSE i \in K : Cardinality({j \in K : j <= i}) = k]]

\* position of the first captured string whose squeezed form is p
FirstSeen(captured, p) ==
    CHOOSE i \in DOMAIN captured :
        /\ Squeezed(captured[i]) = p
        /\ \A j \in 1..(i - 1) : Squeezed(captured[j]) # p

\* message is the generic one when nothing was captured, and otherwise names,
\* joined by ", ", each distinct non-empty squeezed captured string once, in
\* the order of first capture
MessageCarries(captured, message) ==
    IF captured = <<>> THEN message = <<"login">>
    ELSE LET P == {Squeezed(captured[i]) : i \in DOMAIN captured} \ {<<>>}
         IN  \E parts \in [1..Cardinality(P) -> P] :
                /\ \A p \in P : \E k \in DOMAIN parts : parts[k] = p
                /\ \A k, l \in DOMAIN parts :
                      k < l => FirstSeen(captured, parts[k]) < FirstSeen(captured, parts[l])
                /\ message = <<"login, looks like ">> \o join(<<",", " ">>, parts)

\* C18: a login whose URL wait timed out leaves async_login_oppo_cloud as an
\* AuthenticationError whose message carries the captured texts, normalised,
\* without duplicates, in first-seen order, or is the generic message.
C18_UrlTimeoutIsAuthErrorWithDiagnostics ==
    \A t \in Tasks :
        (pc[t] = "al_ret" /\ diag[t].state # "none")
        => /\ LoginWrap(exc[t]) = "AuthError"
           /\ diag[t].state = "read"
           /\ MessageCarries(diag[t].captured, diag[t].message)

\* C19: an error of one of the client's kinds that leaves _login_oppo_cloud
\* leaves async_login_oppo_cloud as the same error.
C19_ClientKindsPassLogin ==
    [][\A t \in Tasks :
          (pc[t] = "al_ret" /\ exc[t] \in ClientKinds /\ pc'[t] # "al_ret")
          => exc'[t] = exc[t]]_vars

\* C19 witness: a login that ended with the CommunicationError of its session
\* acquisition
C19_Witness ==
    \E t \in Tasks :
        /\ Done(t) /\ op[t] = "login" /\ exc[t] = "CommError"
        /\ log[t] = <<<<"login", "CommError">>>>

\* C20: a scrape that found itself redirected is not at its wait nor at its
\* read of the page state: it has raised AuthenticationError.
C20_RedirectFailsAtOnce ==
    \A t \in Tasks :
        vm[t] = "redirected"
        => pc[t] \notin {"sc_wait", "sc_read"} /\ exc[t] = "AuthError"

C20_Witness ==
    \E t \in Tasks :
        pc[t] = "gd_after_scrape" /\ vm[t] = "redirected" /\ exc[t] = "AuthError"

----
\* Properties of the parser.

Returned == parsed.state = "returned"

\* the points entry of index i exists and holds a numeric lat and lng
PointConvertible(i) ==
    /\ i <= Len(raw.points)
    /\ raw.points[i].kind = "dict"
    /\ raw.points[i].lat \in Numerals
    /\ raw.points[i].lng \in Numerals

\* the coordinate field of entry i is a string "lat,lng" of two numbers
CoordinateWellFormed(i) ==
    /\ raw.devices[i].coordinate.kind = "str"
    /\ Len(raw.devices[i].coordinate.text) = 3
    /\ raw.devices[i].coordinate.text[1] \in Numerals
    /\ raw.devices[i].coordinate.text[2] = ","
    /\ raw.devices[i].coordinate.text[3] \in Numerals

\* C21: for a non-empty device list the parser yields one record per raw
\* entry, in the same order, and the coordinates of record i are those of the
\* points entry of index i, for points lists shorter than, as long as, or
\* missing relative to the device list.
C21_OneRecordPerEntryPositional ==
    Returned =>
        /\ parsed.exc = "none"
        /\ Len(parsed.result) = Len(raw.devices)
        /\ \A i \in 1..Len(raw.devices) :
              /\ parsed.result[i].device_model = raw.devices[i].deviceName
              /\ PointConvertible(i) =>
                    /\ parsed.result[i].latitude
                          = gcj2wgs(raw.points[i].lat, raw.points[i].lng).latitude
                    /\ parsed.result[i].longitude
                          = gcj2wgs(raw.points[i].lat, raw.points[i].lng).longitude

C23_CoordinateFailureNotFatal ==
    Returned =>
        /\ parsed.exc \notin {"TypeError", "ValueError"}
        /\ \A i \in 1..Len(raw.devices) :
              /\ i <= Len(parsed.result)
              /\ IF PointConvertible(i)
                    THEN parsed.result[i].latitude
                            = gcj2wgs(raw.points[i].lat, raw.points[i].lng).latitude
                 ELSE IF CoordinateWellFormed(i)
                    THEN parsed.result[i].latitude
                            = gcj2wgs(raw.devices[i].coordinate.text[1],
                                      raw.devices[i].coordinate.text[3]).latitude
                 ELSE /\ parsed.result[i].latitude = NoneValue
                      /\ parsed.result[i].longitude = NoneValue

\* C24: parsing an entry without a battery field succeeds and gives a record
\* whose battery level is 0; every record's battery level is in 0..100.
C24_BatteryDefaultsToZero ==
    Returned =>
        /\ (\E i \in 1..Len(raw.devices) : raw.devices[i].battery = "absent")
              => parsed.exc = "none"
        /\ \A i \in 1..Len(parsed.result) :
              /\ "battery_level" \in DOMAIN parsed.result[i]
              /\ parsed.result[i].battery_level \in 0..100
              /\ raw.devices[i].battery = "absent"
                    => parsed.result[i].battery_level = 0

\* C25: for every point-of-interest string the parser returns a record; with
\* a separator in the string, with or without spaces around it, the location
\* name is the trimmed text before the first separator and last-seen the
\* trimmed text after it; without one the location name is the whole trimmed
\* string and last-seen the entry's time field (null when absent).
C25_PoiSplit ==
    Returned =>
        \A i \in 1..Len(raw.devices) :
            /\ i <= Len(parsed.result)
            /\ IF contains(raw.devices[i].poi, <<Sep>>)
                  THEN /\ parsed.result[i].location_name
                             = strip(split1(raw.devices[i].poi, <<Sep>>)[1])
                       /\ parsed.result[i].last_seen
                             = strip(split1(raw.devices[i].poi, <<Sep>>)[2])
                  ELSE /\ parsed.result[i].location_name = strip(raw.devices[i].poi)
                       /\ parsed.result[i].last_seen = raw.devices[i].poiTime

----
\* Properties of the fetch, the login and the client instances.

\* the logins and scrapes of t's call so far, in order
Attempts(t) == SelectSeq(log[t], LAMBDA e : e[1] \in {"login", "scrape"})

\* t's async_get_data is about to run async_login_oppo_cloud
LoginInvoked(t) == op[t] = "get_data" /\ pc[t] = "al_entry"

\* C26: in an async_get_data call, login is invoked only after a scrape of
\* that call failed with AuthenticationError, and a call whose first scrape
\* succeeded has made no login, with keep-session on or off.
C26_LoginOnlyAfterAuthFailure ==
    \A t \in Tasks :
        /\ LoginInvoked(t)
              => \E i \in DOMAIN log[t] : log[t][i] = <<"scrape", "AuthError">>
        /\ (op[t] = "get_data" /\ FirstScrape(t) # 0
               /\ log[t][FirstScrape(t)][2] = "none")
              => Logins(t) = <<>>

\* C26 as the code has it: with keep-session on, login is invoked only right
\* after a scrape of the call failed with AuthenticationError and a call whose
\* first scrape succeeded has made no login; with keep-session off, every
\* scrape of the call comes right after a login that succeeded.
C26_LoginAfterAuthFailureOrKeepOff ==
    \A t \in Tasks :
        op[t] = "get_data" =>
            IF keep_session
               THEN /\ LoginInvoked(t)
                          => /\ Attempts(t) # <<>>
                             /\ Attempts(t)[Len(Attempts(t))] = <<"scrape", "AuthError">>
                    /\ (FirstScrape(t) # 0 /\ log[t][FirstScrape(t)][2] = "none")
                          => Logins(t) = <<>>
               ELSE \A i \in DOMAIN Attempts(t) :
                        Attempts(t)[i][1] = "scrape"
                           => /\ i > 1
                              /\ Attempts(t)[i - 1] = <<"login", "none">>

\* C26 witness: with keep-session on, a call invokes login after its scrape
\* failed with AuthenticationError
C26_Witness ==
    \E t \in Tasks :
        /\ keep_session
        /\ LoginInvoked(t)
        /\ Attempts(t) = << <<"scrape", "AuthError">> >>

\* C27: two client instances are independent: no step of one changes the
\* other's session handle or keep-session flag, whatever the operation and
\* whether it fails, and no session is held by both.
C27_InstancesIndependent ==
    /\ [](driver # None => driver # other.driver)
    /\ [][ /\ (driver' # driver \/ keep_session' # keep_session) => other' = other
           /\ other' # other => (driver' = driver /\ keep_session' = keep_session)
         ]_vars

\* C27 witness: both clients hold a session, each its own, with different
\* keep-session flags, while a call of the first has failed
C27_Witness ==
    /\ driver # None
    /\ other.driver # None
    /\ other.keep_session
    /\ ~keep_session
    /\ \E t \in Tasks : op[t] = "get_data" /\ exc[t] # "none"

\* C28: in login, the absence of the terms dialog before sign-in and of the
\* "Agree and continue" dialog after submit is no error: when either wait
\* times out the flow is at the next step without an exception, and a login
\* without the two dialogs can return normally.
C28_AbsentDialogsAreNoError ==
    \A t \in Tasks :
        /\ (pc[t] = "lg_signin" /\ "tos" \in diag[t].absent) => exc[t] = "none"
        /\ (pc[t] = "lg_urlwait" /\ "agree" \in diag[t].absent) => exc[t] = "none"
        /\ (pc[t] \in {"lg_tos", "lg_agree"} /\ exc[t] = "none"
               /\ drv[t] \in open /\ serialized /\ op[t] = "login")
              => ENABLED (/\ \/ login_dismiss_tos(t)
                             \/ login_agree_and_continue(t)
                          /\ exc'[t] = "none"
                          /\ diag'[t].absent # diag[t].absent)

\* C28 witness: a login in which both dialogs were absent returns normally
C28_Witness ==
    \E t \in Tasks :
        /\ pc[t] = "al_ret"
        /\ exc[t] = "none"
        /\ diag[t].absent = {"tos", "agree"}

\* the logins of t's call that ended in AuthenticationError
FailedLogins(t) == SelectSeq(log[t], LAMBDA e : e = <<"login", "AuthError">>)

\* C29: when login fails with AuthenticationError during an async_get_data
\* call, login is not invoked again in that call: one call makes at most one
\* login attempt that ends in AuthenticationError, with keep-session on or
\* off.
C29_NoLoginAfterFailedLogin ==
    \A t \in Tasks :
        op[t] = "get_data" =>
            /\ Len(FailedLogins(t)) <= 1
            /\ LoginInvoked(t) => FailedLogins(t) = <<>>

\* the part of _login_oppo_cloud between the switch into the iframe and the
\* finally clause
InsideLoginFrame ==
    {"lg_fields", "lg_submit", "lg_agree", "lg_urlwait", "lg_collect", "lg_finally"}

\* C30: once login has switched the driver into the login iframe, the driver
\* is back at the top-level document before login completes, on success and
\* on every failure path: a session is inside the iframe only while a login
\* on it is between the switch and its finally clause, and a scrape never
\* starts on a session that is inside it.
C30_FrameRestored ==
    /\ \A s \in frame :
          \E t \in Tasks : drv[t] = s /\ pc[t] \in InsideLoginFrame
    /\ \A t \in Tasks :
          pc[t] \in {"al_ret", "sc_entry", "sc_nav", "gd_after_login", "gd_after_relogin"}
             => frame = {}

\* C30 witness: a login whose URL wait timed out inside the iframe is about
\* to return its AuthenticationError, its session alive and back at the
\* top-level document
C30_Witness ==
    \E t \in Tasks :
        /\ pc[t] = "al_ret"
        /\ diag[t].state = "read"
        /\ exc[t] = "AuthError"
        /\ drv[t] \in open
        /\ drv[t] \notin frame

\* C31: async_test_connection returns true or raises CommunicationError and
\* nothing else, and whenever it fails the session it acquired is torn down:
\* the client holds no session after a failed test.
C31_FailedTestLeavesNoSession ==
    \A t \in Tasks :
        (Done(t) /\ op[t] = "test_connection")
        => /\ exc[t] \in {"none", "CommError"}
           /\ exc[t] = "CommError" => (driver = None /\ drv[t] \notin open)

====
